---- MODULE Spec2Model ----
(***************************************************************************)
(* State-machine model of the building-3d-memory front end:                *)
(*   frontend/src/App.tsx                    the root view and its switch  *)
(*   frontend/src/components/ThreeScene.tsx  the scene host                *)
(*                                                                         *)
(* Every mount of ThreeScene is a session: one run of the useEffect body   *)
(* with its own scene, camera, renderer, controls, loaders and closures.   *)
(* Sessions are kept after unmount, because the closures they handed to    *)
(* the loaders and to requestAnimationFrame stay callable.                 *)
(*                                                                         *)
(* Numbers are JavaScript Numbers, IEEE-754 binary64: a finite Number is   *)
(* [neg, man, exp] with the value (-1)^neg * man * 2^exp, where man is an  *)
(* odd natural number below 2^53 written as its binary digits, least       *)
(* significant first (0 has no digits and exp 0).  Every operation rounds  *)
(* its exact result to the nearest such Number, ties to even.  The         *)
(* exponent is not limited and the sign of a zero is not kept, so          *)
(* Infinity, NaN, subnormal Numbers and -0 are outside the model; the      *)
(* program's coordinates and ratios stay far away from them.               *)
(*                                                                         *)
(* loading and error are the component's hook state.  React discards a     *)
(* state update made after the component has unmounted, so the setters     *)
(* change them only while the session is mounted.                          *)
(*                                                                         *)
(* The onProgress callbacks of both loaders only write to the console and  *)
(* touch no state; they have no action here.                               *)
(***************************************************************************)
EXTENDS Integers, Sequences, FiniteSets

VARIABLES
    showThree,        \* App.tsx: useState(true)
    panelMounted,     \* the "React Demo" subtree is in the tree
    sessions,         \* sequence of ThreeScene sessions, in mount order
    win,              \* <<window.innerWidth, window.innerHeight>>
    resizeListeners,  \* sessions whose handleResize is registered on window
    refDetached,      \* whether React has already nulled mountRef.current when
                      \* an effect cleanup runs (it depends on React's commit
                      \* order, which is fixed for one run of the program)
    clicks,           \* history: number of switch clicks so far
    lastResized       \* history: the sessions whose handleResize the last step ran

vars == <<showThree, panelMounted, sessions, win, resizeListeners, refDetached,
          clicks, lastResized>>

\* ---------------------------------------------------------------- bounds

MaxSessions == 2

\* Viewport sizes the window may take (width, height), all positive.
Viewports == { <<4, 3>>, <<2, 2>> }

\* ---------------------------------------------------------------- numbers

\* A natural number as its binary digits, least significant first, with no
\* leading zero digit (so 0 is the empty sequence).
RECURSIVE Bits(_)
Bits(n) == IF n = 0 THEN << >> ELSE << n % 2 >> \o Bits(n \div 2)

Max(i, j) == IF i < j THEN j ELSE i

\* digit i of a, 0 beyond its length
Bit(a, i) == IF i \in 1..Len(a) THEN a[i] ELSE 0

\* a without its leading zero digits
Trim(a) ==
    LET ones == { i \in 1..Len(a) : a[i] = 1 }
    IN  IF ones = {} THEN << >>
        ELSE SubSeq(a, 1, CHOOSE i \in ones : \A j \in ones : j <= i)

\* the carry into digit i of a + b: some lower digit generates one and every
\* digit between passes it on
Carry(a, b, i) ==
    \E j \in 1..(i - 1) :
        /\ Bit(a, j) = 1 /\ Bit(b, j) = 1
        /\ \A k \in (j + 1)..(i - 1) : Bit(a, k) # Bit(b, k)

\* a + b
BAdd(a, b) ==
    Trim([i \in 1..(Max(Len(a), Len(b)) + 1) |->
            (Bit(a, i) + Bit(b, i) + IF Carry(a, b, i) THEN 1 ELSE 0) % 2])

\* the borrow out of digit i of a - b
Borrow(a, b, i) ==
    \E j \in 1..(i - 1) :
        /\ Bit(a, j) = 0 /\ Bit(b, j) = 1
        /\ \A k \in (j + 1)..(i - 1) : Bit(a, k) = Bit(b, k)

\* a - b, for a >= b
BSub(a, b) ==
    Trim([i \in 1..Len(a) |->
            (Bit(a, i) + Bit(b, i) + IF Borrow(a, b, i) THEN 1 ELSE 0) % 2])

\* a < b
BLess(a, b) ==
    \E i \in 1..Len(b) :
        /\ Bit(a, i) < b[i]
        /\ \A k \in (i + 1)..Max(Len(a), Len(b)) : Bit(a, k) = Bit(b, k)

\* a * 2^k
Shl(a, k) == IF a = << >> THEN a ELSE [i \in 1..k |-> 0] \o a

\* a * b, splitting a in halves
RECURSIVE BMul(_, _)
BMul(a, b) ==
    IF a = << >> \/ b = << >> THEN << >>
    ELSE IF Len(a) = 1 THEN b
    ELSE LET h == Len(a) \div 2
         IN  BAdd(BMul(Trim(SubSeq(a, 1, h)), b),
                  Shl(BMul(SubSeq(a, h + 1, Len(a)), b), h))

\* long division, four digits of n at a time from digit i downwards: rem is
\* the remainder and q the quotient of the digits above i
RECURSIVE DivStep(_, _, _, _, _)
DivStep(n, d, i, rem, q) ==
    IF i = 0 THEN << Trim(q), rem >>
    ELSE LET w  == IF i < 4 THEN i ELSE 4
             r1 == Trim(SubSeq(n, i - w + 1, i) \o rem)
             c  == CHOOSE m \in 0..15 :
                      /\ ~BLess(r1, BMul(Bits(m), d))
                      /\ BLess(r1, BMul(Bits(m + 1), d))
         IN  DivStep(n, d, i - w, BSub(r1, BMul(Bits(c), d)),
                     [j \in 1..w |-> Bit(Bits(c), j)] \o q)

\* << quotient, remainder >> of n by d, for d # 0
BDivMod(n, d) == DivStep(n, d, Len(n), << >>, << >>)

\* 0 (the sign of a zero is not kept: -0 === 0 in JavaScript)
Zero == [neg |-> FALSE, man |-> << >>, exp |-> 0]

\* the number n * 2^e with n's trailing zero digits moved into the exponent
Norm(neg, n, e) ==
    IF n = << >> THEN Zero
    ELSE LET k == CHOOSE i \in 1..Len(n) :
                     n[i] = 1 /\ \A j \in 1..(i - 1) : n[j] = 0
         IN  [neg |-> neg, man |-> SubSeq(n, k, Len(n)), exp |-> e + k - 1]

\* n * 2^e rounded to a 53-digit significand, ties to even
Round(neg, n, e) ==
    IF Len(n) <= 53 THEN Norm(neg, n, e)
    ELSE LET drop == Len(n) - 53
             kept == SubSeq(n, drop + 1, Len(n))
             up   == /\ n[drop] = 1
                     /\ \/ kept[1] = 1
                        \/ \E i \in 1..(drop - 1) : n[i] = 1
         IN  Norm(neg, IF up THEN BAdd(kept, << 1 >>) ELSE kept, e + drop)

\* the Number with the integer value n
Num(n) == Round(n < 0, Bits(IF n < 0 THEN -n ELSE n), 0)

\* -x
FNeg(x) == IF x.man = << >> THEN x ELSE [x EXCEPT !.neg = ~@]

\* x + y
FAdd(x, y) ==
    IF x.man = << >> THEN y
    ELSE IF y.man = << >> THEN x
    ELSE LET e == IF x.exp < y.exp THEN x.exp ELSE y.exp
             a == Shl(x.man, x.exp - e)
             b == Shl(y.man, y.exp - e)
         IN  IF x.neg = y.neg THEN Round(x.neg, BAdd(a, b), e)
             ELSE IF BLess(a, b) THEN Round(y.neg, BSub(b, a), e)
             ELSE Round(x.neg, BSub(a, b), e)

\* x - y
FSub(x, y) == FAdd(x, FNeg(y))

\* x * y
FMul(x, y) ==
    IF x.man = << >> \/ y.man = << >> THEN Zero
    ELSE Round(x.neg # y.neg, BMul(x.man, y.man), x.exp + y.exp)

\* x / y, for y # 0: the quotient to 55 digits or more, with one more digit
\* set below them when the division leaves a remainder
FDiv(x, y) ==
    IF x.man = << >> THEN Zero
    ELSE LET k  == Max(0, 55 + Len(y.man) - Len(x.man))
             qr == BDivMod(Shl(x.man, k), y.man)
         IN  IF qr[2] = << >>
             THEN Round(x.neg # y.neg, qr[1], x.exp - y.exp - k)
             ELSE Round(x.neg # y.neg, << 1 >> \o qr[1], x.exp - y.exp - k - 1)

\* a vector with integer components
Vec3(x, y, z) == << Num(x), Num(y), Num(z) >>

ZeroVec == Vec3(0, 0, 0)

\* object.scale.set(0.001, 0.001, 0.001): the literal 0.001 is the Number
\* nearest to 1/1000
ModelScale == FDiv(Num(1), Num(1000))

\* the 0.5 of Box3.getCenter
Half == FDiv(Num(1), Num(2))

\* the aspect ratios of the model's viewports, worked out once
ViewportAspect == [vp \in Viewports |-> FDiv(Num(vp[1]), Num(vp[2]))]

\* window.innerWidth / window.innerHeight
Aspect(vp) ==
    IF vp \in Viewports THEN ViewportAspect[vp] ELSE FDiv(Num(vp[1]), Num(vp[2]))

\* Vector3.sub
Vec3Sub(a, b) == << FSub(a[1], b[1]), FSub(a[2], b[2]), FSub(a[3], b[3]) >>

\* world coordinate of a local coordinate under an object's scale and position
ToWorld(raw, scale, position) ==
    << FAdd(FMul(raw[1], scale), position[1]),
       FAdd(FMul(raw[2], scale), position[2]),
       FAdd(FMul(raw[3], scale), position[3]) >>

\* a Box3 that contains nothing (min = +Infinity, max = -Infinity)
EmptyBox == [empty |-> TRUE, min |-> ZeroVec, max |-> ZeroVec]

\* new THREE.Box3().setFromObject(object): the world-space box of the
\* object's geometry, empty when the object has none
SetFromObject(object) ==
    IF object.box.empty
    THEN EmptyBox
    ELSE [empty |-> FALSE,
          min |-> ToWorld(object.box.min, object.scale, object.position),
          max |-> ToWorld(object.box.max, object.scale, object.position)]

\* box.getCenter(new THREE.Vector3()): (min + max) * 0.5, the origin for an
\* empty box
GetCenter(box) ==
    IF box.empty
    THEN ZeroVec
    ELSE << FMul(FAdd(box.min[1], box.max[1]), Half),
            FMul(FAdd(box.min[2], box.max[2]), Half),
            FMul(FAdd(box.min[3], box.max[3]), Half) >>

\* What an OBJ file may parse to: the local bounding box of its geometry and
\* the kinds of the Group's children (faces give a Mesh, 'l' elements a
\* LineSegments; a file with no geometry gives an empty Group).  The first
\* box is one whose centre the Numbers carry exactly; the second has
\* coordinates in the thousands, the size of asset the scale of 0.001 is
\* meant for, and the Numbers round its centre along x.
ParsedFiles ==
    { [box |-> [empty |-> FALSE, min |-> Vec3(-3, -1, 0), max |-> Vec3(1, 2, 5)],
       kinds |-> << "Mesh", "LineSegments" >>],
      [box |-> [empty |-> FALSE, min |-> Vec3(2048, -1000, 0),
                max |-> Vec3(7168, 2000, 5000)],
       kinds |-> << "Mesh" >>],
      [box |-> EmptyBox, kinds |-> << >>] }

\* ---------------------------------------------------------------- messages

MtlErrorMessage == "Failed to load MTL file"
ObjErrorMessage == "Failed to load OBJ file"
NoError == "null"

FrameCalls == << "requestAnimationFrame", "controls.update", "renderer.render" >>

\* ---------------------------------------------------------------- ThreeScene

\* The Group the OBJ loader hands to onLoad: unit scale, at the origin, no
\* shadow flag set on it or on any child.
ParsedObject(file) ==
    [kind |-> "Group", box |-> file.box, scale |-> Num(1),
     position |-> ZeroVec, castShadow |-> FALSE, receiveShadow |-> FALSE,
     children |-> [i \in 1..Len(file.kinds) |->
                     [kind |-> file.kinds[i],
                      castShadow |-> FALSE, receiveShadow |-> FALSE]]]

\* setLoading: the update is dropped once the component has unmounted
SetLoading(sess, value) ==
    IF sess.mounted THEN [sess EXCEPT !.loading = value] ELSE sess

\* setError: the update is dropped once the component has unmounted
SetError(sess, message) ==
    IF sess.mounted THEN [sess EXCEPT !.error = message] ELSE sess

\* mutant of Animate: the loop stops rescheduling itself once error is set
AnimateStopsOnError(sess) ==
    [sess EXCEPT
        !.rafScheduled = (sess.error = NoError),
        !.lastFrame = [calls    |-> FrameCalls,
                       drewObject |-> "object" \in sess.sceneChildren,
                       disposed |-> sess.rendererDisposed > 0]]

\* animate: schedule the next frame, update the controls, draw
Animate(sess) ==
    [sess EXCEPT
        !.rafScheduled = TRUE,
        !.lastFrame = [calls    |-> FrameCalls,
                       drewObject |-> "object" \in sess.sceneChildren,
                       disposed |-> sess.rendererDisposed > 0]]

\* mutant of HandleResize: the renderer.setSize call is missing
HandleResizeKeepsSize(sess, vp) ==
    [sess EXCEPT
        !.cameraAspect = Aspect(vp),
        !.projectionAspect = Aspect(vp)]

\* handleResize
HandleResize(sess, vp) ==
    [sess EXCEPT
        !.cameraAspect = Aspect(vp),
        !.projectionAspect = Aspect(vp),
        !.rendererSize = vp]

\* mutant of Setup: loading starts as useState(false)
SetupNotLoading(vp) ==
    Animate(
        [mounted          |-> TRUE,
         loading          |-> FALSE,
         error            |-> NoError,
         canvasAttached   |-> TRUE,
         sceneChildren    |-> {"ambientLight", "directionalLight"},
         object           |-> << >>,
         cameraAspect     |-> Aspect(vp),
         projectionAspect |-> Aspect(vp),
         rendererSize     |-> vp,
         controlsDisposed |-> 0,
         rendererDisposed |-> 0,
         mtl              |-> "pending",
         mtlLoads         |-> 1,
         obj              |-> "idle",
         objLoads         |-> 0,
         rafScheduled     |-> FALSE,
         lastFrame        |-> [calls |-> << >>, drewObject |-> FALSE, disposed |-> FALSE]])

\* useState initial values and the useEffect body, up to and including the
\* first animate() call.  React attaches mountRef to the container before it
\* runs the effect, so the early return on a null ref is not taken.
Setup(vp) ==
    Animate(
        [mounted          |-> TRUE,
         loading          |-> TRUE,
         error            |-> NoError,
         canvasAttached   |-> TRUE,
         sceneChildren    |-> {"ambientLight", "directionalLight"},
         object           |-> << >>,
         cameraAspect     |-> Aspect(vp),
         projectionAspect |-> Aspect(vp),
         rendererSize     |-> vp,
         controlsDisposed |-> 0,
         rendererDisposed |-> 0,
         mtl              |-> "pending",
         mtlLoads         |-> 1,
         obj              |-> "idle",
         objLoads         |-> 0,
         rafScheduled     |-> FALSE,
         lastFrame        |-> [calls |-> << >>, drewObject |-> FALSE, disposed |-> FALSE]])

\* mtlLoader.load onLoad: preload, setMaterials, then objLoader.load
OnMtlLoad(sess) ==
    [sess EXCEPT !.mtl = "loaded", !.obj = "pending", !.objLoads = @ + 1]

\* mutant of OnMtlError: the geometry load is started although the material
\* load failed
OnMtlErrorStartsObj(sess) ==
    [SetLoading(SetError(sess, MtlErrorMessage), FALSE) EXCEPT
        !.mtl = "failed", !.obj = "pending", !.objLoads = @ + 1]

\* mtlLoader.load onError
OnMtlError(sess) ==
    [SetLoading(SetError(sess, MtlErrorMessage), FALSE) EXCEPT !.mtl = "failed"]

\* the callback of object.traverse: only a Mesh gets the shadow flags
SetShadows(node) ==
    IF node.kind = "Mesh"
    THEN [node EXCEPT !.castShadow = TRUE, !.receiveShadow = TRUE]
    ELSE node

\* object.traverse(callback): the object itself, then its children
Traverse(object) ==
    LET self == SetShadows([kind |-> object.kind,
                            castShadow |-> object.castShadow,
                            receiveShadow |-> object.receiveShadow])
    IN  [object EXCEPT
            !.castShadow = self.castShadow,
            !.receiveShadow = self.receiveShadow,
            !.children = [i \in 1..Len(object.children) |->
                            SetShadows(object.children[i])]]

\* mutant of PlaceObject: the centre is taken before the scale is applied
PlaceObjectCentreBeforeScale(parsed) ==
    LET center == GetCenter(SetFromObject(parsed))
    IN  Traverse([parsed EXCEPT !.scale = ModelScale,
                                !.position = Vec3Sub(@, center)])

\* objLoader.load onLoad, up to scene.add: scale, centre, shadow flags
PlaceObject(parsed) ==
    LET scaled == [parsed EXCEPT !.scale = ModelScale]
        center == GetCenter(SetFromObject(scaled))
    IN  Traverse([scaled EXCEPT !.position = Vec3Sub(@, center)])

\* the placed objects of the model's files, worked out once
PlacedFile == [file \in ParsedFiles |-> PlaceObject(ParsedObject(file))]

\* objLoader.load onLoad
OnObjLoad(sess, file) ==
    SetLoading(
        [sess EXCEPT !.obj = "loaded",
                     !.object = << IF file \in ParsedFiles
                                   THEN PlacedFile[file]
                                   ELSE PlaceObject(ParsedObject(file)) >>,
                     !.sceneChildren = @ \cup {"object"}],
        FALSE)

\* mutant of OnObjError: the material stage's message is reported
OnObjErrorWrongMessage(sess) ==
    [SetLoading(SetError(sess, MtlErrorMessage), FALSE) EXCEPT !.obj = "failed"]

\* mutant of OnObjError: the geometry load is tried again after a failure
OnObjErrorRetries(sess) ==
    [SetLoading(SetError(sess, ObjErrorMessage), FALSE) EXCEPT !.obj = "pending"]

\* objLoader.load onError
OnObjError(sess) ==
    [SetLoading(SetError(sess, ObjErrorMessage), FALSE) EXCEPT !.obj = "failed"]

\* mutant of Cleanup: teardown also cancels the scheduled animation frame
CleanupCancelsFrame(sess, refCurrent) ==
    [sess EXCEPT
        !.mounted = FALSE,
        !.rafScheduled = FALSE,
        !.controlsDisposed = @ + 1,
        !.canvasAttached = IF refCurrent # "null" /\ sess.canvasAttached
                           THEN FALSE ELSE @,
        !.rendererDisposed = @ + 1]

\* the function the effect returns; refCurrent is mountRef.current when it
\* runs.  (removeEventListener is in the action, the listener set is global.)
Cleanup(sess, refCurrent) ==
    [sess EXCEPT
        !.mounted = FALSE,
        !.controlsDisposed = @ + 1,
        !.canvasAttached = IF refCurrent # "null" /\ sess.canvasAttached
                           THEN FALSE ELSE @,
        !.rendererDisposed = @ + 1]


\* the overlays the component's render returns: each flag is tested on its own
Render(sess) ==
    (IF sess.loading THEN { << "Loading 3D Model..." >> } ELSE {})
    \cup (IF sess.error # NoError THEN { << "Error: ", sess.error >> } ELSE {})

\* ---------------------------------------------------------------- actions

Sessions == 1..Len(sessions)

MountedSessions == { s \in Sessions : sessions[s].mounted }

Init ==
    /\ showThree = TRUE
    /\ panelMounted = FALSE
    /\ win \in Viewports
    /\ sessions = << Setup(win) >>
    /\ resizeListeners = {1}
    /\ refDetached \in BOOLEAN
    /\ clicks = 0
    /\ lastResized = {}

\* App.tsx "Switch to React Demo": setShowThree(false); the commit unmounts
\* ThreeScene, runs its effect cleanup and mounts the panel.
SwitchToReactDemo ==
    /\ showThree
    /\ showThree' = FALSE
    /\ panelMounted' = TRUE
    /\ sessions' = [s \in Sessions |->
                      IF sessions[s].mounted
                      THEN Cleanup(sessions[s], IF refDetached THEN "null" ELSE "div")
                      ELSE sessions[s]]
    /\ resizeListeners' = resizeListeners \ MountedSessions
    /\ clicks' = clicks + 1
    /\ lastResized' = {}
    /\ UNCHANGED <<win, refDetached>>

\* mutant of SwitchToThreeDemo: the panel is rendered whatever showThree is
SwitchToThreeDemoKeepsPanel ==
    /\ ~showThree
    /\ Len(sessions) < MaxSessions
    /\ showThree' = TRUE
    /\ panelMounted' = panelMounted
    /\ sessions' = Append(sessions, Setup(win))
    /\ resizeListeners' = resizeListeners \cup {Len(sessions) + 1}
    /\ clicks' = clicks + 1
    /\ lastResized' = {}
    /\ UNCHANGED <<win, refDetached>>

\* App.tsx "Switch to Three.js Demo": setShowThree(true); the commit unmounts
\* the panel, mounts a new ThreeScene and runs its effect.
SwitchToThreeDemo ==
    /\ ~showThree
    /\ Len(sessions) < MaxSessions
    /\ showThree' = TRUE
    /\ panelMounted' = FALSE
    /\ sessions' = Append(sessions, Setup(win))
    /\ resizeListeners' = resizeListeners \cup {Len(sessions) + 1}
    /\ clicks' = clicks + 1
    /\ lastResized' = {}
    /\ UNCHANGED <<win, refDetached>>

\* the material file arrives and parses
MtlLoaded(s) ==
    /\ sessions[s].mtl = "pending"
    /\ sessions' = [sessions EXCEPT ![s] = OnMtlLoad(@)]
    /\ lastResized' = {}
    /\ UNCHANGED <<showThree, panelMounted, win, resizeListeners, refDetached, clicks>>

\* the material file fails to load
MtlFailed(s) ==
    /\ sessions[s].mtl = "pending"
    /\ sessions' = [sessions EXCEPT ![s] = OnMtlError(@)]
    /\ lastResized' = {}
    /\ UNCHANGED <<showThree, panelMounted, win, resizeListeners, refDetached, clicks>>

\* the geometry file arrives and parses to the object `file` describes
ObjLoaded(s, file) ==
    /\ sessions[s].obj = "pending"
    /\ sessions' = [sessions EXCEPT ![s] = OnObjLoad(@, file)]
    /\ lastResized' = {}
    /\ UNCHANGED <<showThree, panelMounted, win, resizeListeners, refDetached, clicks>>

\* the geometry file fails to load
ObjFailed(s) ==
    /\ sessions[s].obj = "pending"
    /\ sessions' = [sessions EXCEPT ![s] = OnObjError(@)]
    /\ lastResized' = {}
    /\ UNCHANGED <<showThree, panelMounted, win, resizeListeners, refDetached, clicks>>

\* the browser runs a scheduled animation frame
Frame(s) ==
    /\ sessions[s].rafScheduled
    /\ sessions' = [sessions EXCEPT ![s] = Animate(@)]
    /\ lastResized' = {}
    /\ UNCHANGED <<showThree, panelMounted, win, resizeListeners, refDetached, clicks>>

\* the window is resized to vp and dispatches "resize" to its listeners
Resize(vp) ==
    /\ vp # win
    /\ win' = vp
    /\ sessions' = [s \in Sessions |->
                      IF s \in resizeListeners
                      THEN HandleResize(sessions[s], vp)
                      ELSE sessions[s]]
    /\ lastResized' = resizeListeners
    /\ UNCHANGED <<showThree, panelMounted, resizeListeners, refDetached, clicks>>

Next ==
    \/ SwitchToReactDemo
    \/ SwitchToThreeDemo
    \/ \E s \in Sessions : MtlLoaded(s)
    \/ \E s \in Sessions : MtlFailed(s)
    \/ \E s \in Sessions, file \in ParsedFiles : ObjLoaded(s, file)
    \/ \E s \in Sessions : ObjFailed(s)
    \/ \E s \in Sessions : Frame(s)
    \/ \E vp \in Viewports : Resize(vp)

Spec == Init /\ [][Next]_vars

\* ---------------------------------------------------------------- claims

ObjectInScene(sess) == "object" \in sess.sceneChildren

\* |x| <= |y| * 2^k
AbsLeqScaled(x, y, k) ==
    \/ x.man = << >>
    \/ /\ y.man # << >>
       /\ LET e == IF x.exp < y.exp + k THEN x.exp ELSE y.exp + k
          IN  ~BLess(Shl(y.man, y.exp + k - e), Shl(x.man, x.exp - e))

\* |x| is at most 2^-51 times the larger of |lo| and |hi|: x is no more than
\* the rounding errors of a few operations on Numbers of the size of lo and hi
WithinRounding(x, lo, hi) ==
    AbsLeqScaled(x, lo, -51) \/ AbsLeqScaled(x, hi, -51)

\* the object is at scale 0.001, its position is minus the centre its scaled
\* bounding box has with the object at the origin, and that puts the centre
\* of its world bounding box at the origin up to rounding: on every axis the
\* centre is off by at most 2^-51 times the largest absolute coordinate of
\* the scaled box on that axis
Centred(object) ==
    LET scaled == SetFromObject([object EXCEPT !.position = ZeroVec])
        center == GetCenter(SetFromObject(object))
    IN  /\ object.scale = ModelScale
        /\ object.position = Vec3Sub(ZeroVec, GetCenter(scaled))
        /\ \A i \in 1..3 :
              WithinRounding(center[i], scaled.min[i], scaled.max[i])

\* the object is at scale 0.001 and the centre of its world bounding box is
\* exactly (0, 0, 0)
ExactlyCentred(object) ==
    /\ object.scale = ModelScale
    /\ GetCenter(SetFromObject(object)) = ZeroVec

\* the objects a geometry load can put into a scene
PlacedObjects == { PlacedFile[file] : file \in ParsedFiles }

\* those of them that are centred up to rounding, worked out once
CentredObjects == { object \in PlacedObjects : Centred(object) }

\* those of them that are centred exactly, worked out once
ExactlyCentredObjects == { object \in PlacedObjects : ExactlyCentred(object) }

\* exactly the Mesh children of the object carry the shadow flags
MeshesShadowed(object) ==
    \A i \in 1..Len(object.children) :
        LET child == object.children[i]
        IN  /\ child.castShadow <=> child.kind = "Mesh"
            /\ child.receiveShadow <=> child.kind = "Mesh"

\* the object sits in the scene, scaled and centred up to rounding, and
\* exactly its Mesh children carry the shadow flags
ObjectPlaced(sess) ==
    /\ ObjectInScene(sess)
    /\ Len(sess.object) = 1
    /\ sess.object[1] \in CentredObjects
    /\ MeshesShadowed(sess.object[1])

\* the object sits in the scene, scaled and with the centre of its bounding
\* box exactly at the origin
ObjectPlacedExactly(sess) ==
    /\ ObjectInScene(sess)
    /\ Len(sess.object) = 1
    /\ sess.object[1] \in ExactlyCentredObjects

\* the session state of the flags: FAILED once error is set, else LOADING
\* while loading, else READY
SessionState(sess) ==
    IF sess.error # NoError THEN "FAILED"
    ELSE IF sess.loading THEN "LOADING"
    ELSE "READY"

\* C1: after any sequence of switch clicks exactly one of the two subtrees is
\* mounted (one ThreeScene and no panel, or the panel and no ThreeScene), the
\* mounted one is the one showThree selects, and every click flips the mode,
\* so an even number of clicks shows the scene again and an odd number the
\* panel.
C1_ExactlyOneSubtree ==
    /\ \/ Cardinality(MountedSessions) = 1 /\ ~panelMounted
       \/ MountedSessions = {} /\ panelMounted
    /\ showThree <=> ~panelMounted
    /\ showThree <=> (clicks % 2 = 0)

C1_Witness ==
    /\ clicks = 2
    /\ Len(sessions) = 2
    /\ ~sessions[1].mounted
    /\ sessions[2].mounted
    /\ ~panelMounted

\* C2: the step that mounts a ThreeScene gives the new session loading = true,
\* error unset (so only the loading overlay is rendered) and a scene with the
\* two lights and no object, with its load at the material stage, whatever
\* the earlier sessions hold, and leaves the earlier sessions as they were.
C2_MountIsFresh ==
    [][Len(sessions') > Len(sessions) =>
        LET new == sessions'[Len(sessions')]
        IN  /\ Len(sessions') = Len(sessions) + 1
            /\ new.mounted
            /\ new.loading
            /\ new.error = NoError
            /\ Render(new) = { << "Loading 3D Model..." >> }
            /\ new.object = << >>
            /\ new.sceneChildren = {"ambientLight", "directionalLight"}
            /\ new.mtl = "pending" /\ new.obj = "idle"
            /\ \A s \in Sessions : sessions'[s] = sessions[s]]_vars

C2_Witness ==
    /\ Len(sessions) = 2
    /\ sessions[1].error # NoError
    /\ ~sessions[1].loading
    /\ sessions[2].mounted
    /\ sessions[2].loading
    /\ sessions[2].error = NoError
    /\ ~ObjectInScene(sessions[2])

\* C3: in every session the geometry load is started at most once and only
\* when the material load has succeeded; a session whose material load
\* failed has started no geometry load.
C3_ObjAfterMtl ==
    \A s \in Sessions :
        /\ sessions[s].objLoads <= 1
        /\ sessions[s].objLoads = 1 <=> sessions[s].mtl = "loaded"
        /\ sessions[s].obj # "idle" <=> sessions[s].objLoads = 1
        /\ sessions[s].mtl = "failed" =>
              sessions[s].objLoads = 0 /\ sessions[s].obj = "idle"

C3_Witness ==
    /\ Len(sessions) = 2
    /\ sessions[1].mtl = "failed"
    /\ sessions[2].mtl = "loaded"
    /\ sessions[2].obj = "pending"
    /\ sessions[2].objLoads = 1

\* C4 as claimed: a session whose material load failed has error 'Failed to
\* load MTL file', one whose geometry load failed has 'Failed to load OBJ
\* file'; in both loading is false, no object is in the scene, and no load
\* was started beyond the one material load and, for a geometry failure, the
\* one geometry load.
C4_FailureSetsError ==
    \A s \in Sessions :
        /\ sessions[s].mtl = "failed" =>
              /\ sessions[s].error = MtlErrorMessage
              /\ ~sessions[s].loading
              /\ ~ObjectInScene(sessions[s]) /\ sessions[s].object = << >>
              /\ sessions[s].mtlLoads = 1 /\ sessions[s].objLoads = 0
        /\ sessions[s].obj = "failed" =>
              /\ sessions[s].error = ObjErrorMessage
              /\ ~sessions[s].loading
              /\ ~ObjectInScene(sessions[s]) /\ sessions[s].object = << >>
              /\ sessions[s].mtlLoads = 1 /\ sessions[s].objLoads = 1

\* C4 amended: a load stage that fails while its session is mounted sets
\* error to that stage's message and loading to false, so that only the
\* error overlay is rendered; one that fails after the session was unmounted
\* leaves error and loading as they were.  Either way the failed session has
\* no object in its scene and has started no load beyond the one material
\* load and, for a geometry failure, the one geometry load; error is only
\* ever the message of the stage that failed, and once set it stays.
C4_FailureWhileMounted ==
    /\ [](\A s \in Sessions :
            /\ sessions[s].mtl = "failed" =>
                  /\ sessions[s].error \in {NoError, MtlErrorMessage}
                  /\ ~ObjectInScene(sessions[s]) /\ sessions[s].object = << >>
                  /\ sessions[s].mtlLoads = 1 /\ sessions[s].objLoads = 0
            /\ sessions[s].obj = "failed" =>
                  /\ sessions[s].error \in {NoError, ObjErrorMessage}
                  /\ ~ObjectInScene(sessions[s]) /\ sessions[s].object = << >>
                  /\ sessions[s].mtlLoads = 1 /\ sessions[s].objLoads = 1
            /\ sessions[s].error # NoError =>
                  /\ ~sessions[s].loading
                  /\ sessions[s].mtl = "failed" \/ sessions[s].obj = "failed")
    /\ [][\A s \in Sessions :
            /\ (sessions[s].mtl = "pending" /\ sessions'[s].mtl = "failed") =>
                  IF sessions[s].mounted
                  THEN /\ sessions'[s].error = MtlErrorMessage
                       /\ ~sessions'[s].loading
                       /\ Render(sessions'[s]) = { << "Error: ", MtlErrorMessage >> }
                  ELSE /\ sessions'[s].error = sessions[s].error
                       /\ sessions'[s].loading = sessions[s].loading
            /\ (sessions[s].obj = "pending" /\ sessions'[s].obj = "failed") =>
                  IF sessions[s].mounted
                  THEN /\ sessions'[s].error = ObjErrorMessage
                       /\ ~sessions'[s].loading
                       /\ Render(sessions'[s]) = { << "Error: ", ObjErrorMessage >> }
                  ELSE /\ sessions'[s].error = sessions[s].error
                       /\ sessions'[s].loading = sessions[s].loading
            /\ sessions[s].error # NoError =>
                  sessions'[s].error = sessions[s].error]_vars

\* session 1 failed at the geometry stage while mounted; session 2 was
\* unmounted with its material load in flight, which then failed
C4_Witness ==
    /\ Len(sessions) = 2
    /\ sessions[1].obj = "failed"
    /\ sessions[1].error = ObjErrorMessage
    /\ ~sessions[1].loading
    /\ ~sessions[2].mounted
    /\ sessions[2].mtl = "failed"
    /\ sessions[2].error = NoError
    /\ sessions[2].loading

\* C5 as claimed: once both loads of a session have succeeded, loading is
\* false, error is unset and the object is in the scene, scaled by 0.001 and
\* with the centre of its bounding box at the origin.
C5_LoadedObjectPlaced ==
    \A s \in Sessions :
        sessions[s].obj = "loaded" =>
            /\ ~sessions[s].loading
            /\ sessions[s].error = NoError
            /\ ObjectPlacedExactly(sessions[s])

\* C5 amended: once both loads of a session have succeeded, error is unset
\* and the object is in the scene at scale 0.001, moved by minus the centre of
\* its scaled bounding box, which leaves the centre of the box at the origin
\* up to the rounding of the Numbers (on every axis off by at most 2^-51
\* times the largest absolute coordinate of the scaled box), with its Mesh
\* children casting and receiving shadows; loading
\* is never false with error unset unless the object is already placed; and
\* the step in which the geometry load succeeds sets loading to false when
\* the session is mounted and leaves loading as it was when the session has
\* been unmounted.
C5_LoadedWhileMounted ==
    /\ [](\A s \in Sessions :
            /\ sessions[s].obj = "loaded" =>
                  /\ sessions[s].error = NoError
                  /\ ObjectPlaced(sessions[s])
                  /\ ~sessions[s].object[1].castShadow
                  /\ ~sessions[s].object[1].receiveShadow
            /\ (~sessions[s].loading /\ sessions[s].error = NoError) =>
                  sessions[s].obj = "loaded" /\ ObjectPlaced(sessions[s]))
    /\ [][\A s \in Sessions :
            (sessions[s].obj = "pending" /\ sessions'[s].obj = "loaded") =>
                /\ ObjectPlaced(sessions'[s])
                /\ sessions'[s].error = NoError
                /\ IF sessions[s].mounted
                   THEN ~sessions'[s].loading /\ Render(sessions'[s]) = {}
                   ELSE sessions'[s].loading = sessions[s].loading]_vars

\* session 2 loaded the file with a Mesh and a LineSegments while mounted,
\* and its box is centred exactly; session 1 got the object with coordinates
\* in the thousands after it had been unmounted, and the centre of its box is
\* off the origin by a rounding error
C5_Witness ==
    /\ Len(sessions) = 2
    /\ sessions[2].mounted
    /\ sessions[2].obj = "loaded"
    /\ ~sessions[2].loading
    /\ ObjectPlaced(sessions[2])
    /\ Len(sessions[2].object[1].children) = 2
    /\ sessions[2].object[1].position # ZeroVec
    /\ sessions[2].object[1] \in ExactlyCentredObjects
    /\ sessions[1].obj = "loaded"
    /\ ObjectPlaced(sessions[1])
    /\ sessions[1].object[1] \notin ExactlyCentredObjects
    /\ sessions[1].object[1].box.max = Vec3(7168, 2000, 5000)
    /\ sessions[1].loading

\* error set and an object in the scene never hold together
ErrorExcludesObject(sess) == ~(sess.error # NoError /\ ObjectInScene(sess))

\* C6: in every step and for every session, loading never goes from false
\* back to true, a session that is READY or FAILED keeps that state, a
\* READY session keeps its object, a FAILED one its message, and error set
\* and an object in the scene never hold together.
C6_SessionStateMachine ==
    [][/\ \A s \in Sessions : ErrorExcludesObject(sessions[s])
       /\ \A s \in 1..Len(sessions') : ErrorExcludesObject(sessions'[s])
       /\ \A s \in Sessions :
            /\ ~sessions[s].loading => ~sessions'[s].loading
            /\ SessionState(sessions[s]) \in {"READY", "FAILED"} =>
                  SessionState(sessions'[s]) = SessionState(sessions[s])
            /\ SessionState(sessions[s]) = "READY" =>
                  ObjectInScene(sessions'[s])
            /\ SessionState(sessions[s]) = "FAILED" =>
                  sessions'[s].error = sessions[s].error]_vars

C6_Witness ==
    /\ Len(sessions) = 2
    /\ SessionState(sessions[1]) = "FAILED"
    /\ ~sessions[1].loading
    /\ SessionState(sessions[2]) = "READY"
    /\ sessions[2].lastFrame.drewObject

\* C7: every mounted session, whether LOADING, READY or FAILED, has a next
\* frame scheduled that the browser can run, and its last frame scheduled
\* the next one first, then updated the controls, then drew.
C7_RenderLoopRuns ==
    \A s \in MountedSessions :
        /\ sessions[s].rafScheduled
        /\ ENABLED Frame(s)
        /\ sessions[s].lastFrame.calls = FrameCalls

C7_Witness ==
    \E s \in MountedSessions :
        /\ SessionState(sessions[s]) = "READY"
        /\ sessions[s].lastFrame.drewObject
        /\ sessions[s].rafScheduled
        /\ \E r \in Sessions \ {s} : SessionState(sessions[r]) = "FAILED"

\* C8: a step that resizes the window gives every mounted session a camera
\* aspect (and projection) of the new width over the new height and a
\* renderer size of the new width and height, and changes nothing else of
\* the session: object, scene children, loading, error and load stages stay.
C8_ResizeUpdatesView ==
    [][win' # win =>
        \A s \in MountedSessions :
            /\ sessions'[s].cameraAspect = Aspect(win')
            /\ sessions'[s].projectionAspect = Aspect(win')
            /\ sessions'[s].rendererSize = win'
            /\ [sessions'[s] EXCEPT
                   !.cameraAspect = sessions[s].cameraAspect,
                   !.projectionAspect = sessions[s].projectionAspect,
                   !.rendererSize = sessions[s].rendererSize] = sessions[s]]_vars

C8_Witness ==
    \E s \in lastResized :
        /\ sessions[s].mounted
        /\ ObjectPlaced(sessions[s])
        /\ sessions[s].object[1].position # ZeroVec
        /\ sessions[s].rendererSize = <<2, 2>>
        /\ sessions[s].cameraAspect = Num(1)
        /\ win = <<2, 2>>

\* C9: every unmounted session has lost its resize handler, has had its
\* controls and its renderer disposed exactly once and has its canvas
\* detached from the container; a mounted session has had nothing disposed;
\* and at most one resize handler and one undisposed renderer exist.
C9_TeardownReleasesAll ==
    /\ \A s \in Sessions :
          IF sessions[s].mounted
          THEN /\ s \in resizeListeners
               /\ sessions[s].controlsDisposed = 0
               /\ sessions[s].rendererDisposed = 0
               /\ sessions[s].canvasAttached
          ELSE /\ s \notin resizeListeners
               /\ sessions[s].controlsDisposed = 1
               /\ sessions[s].rendererDisposed = 1
               /\ ~sessions[s].canvasAttached
    /\ Cardinality(resizeListeners) <= 1
    /\ Cardinality({ s \in Sessions : sessions[s].rendererDisposed = 0 }) <= 1

\* C10 as claimed, the part about the flags: on an unmounted session a load
\* failure sets error and clears loading, and a geometry success clears
\* loading.
C10_LateCallbackSetsFlags ==
    [][\A s \in Sessions : ~sessions[s].mounted =>
          /\ (sessions[s].mtl = "pending" /\ sessions'[s].mtl = "failed") =>
                sessions'[s].error = MtlErrorMessage /\ ~sessions'[s].loading
          /\ (sessions[s].obj = "pending" /\ sessions'[s].obj = "failed") =>
                sessions'[s].error = ObjErrorMessage /\ ~sessions'[s].loading
          /\ (sessions[s].obj = "pending" /\ sessions'[s].obj = "loaded") =>
                ~sessions'[s].loading]_vars

\* C10 amended: teardown cancels nothing.  For every unmounted session a
\* frame is still scheduled and can run, a pending material load can still
\* report success or failure and a pending geometry load failure; the step
\* that unmounts a session leaves its load stages as they were; and on an
\* unmounted session a material success starts the geometry load, a geometry
\* success puts the placed object into the scene of the disposed renderer,
\* and a frame draws on the disposed renderer.  The flags are the exception:
\* no step changes loading or error of an unmounted session.
C10_TeardownCancelsNothing ==
    /\ [](\A s \in Sessions : ~sessions[s].mounted =>
            /\ sessions[s].rendererDisposed = 1
            /\ sessions[s].rafScheduled
            /\ ENABLED Frame(s)
            /\ sessions[s].mtl = "pending" =>
                  (ENABLED MtlLoaded(s)) /\ (ENABLED MtlFailed(s))
            /\ sessions[s].obj = "pending" => ENABLED ObjFailed(s))
    /\ [][/\ \A s \in Sessions : ~sessions[s].mounted =>
               /\ (sessions[s].mtl = "pending" /\ sessions'[s].mtl = "loaded") =>
                     sessions'[s].obj = "pending" /\ sessions'[s].objLoads = 1
               /\ (sessions[s].obj = "pending" /\ sessions'[s].obj = "loaded") =>
                     ObjectPlaced(sessions'[s])
               /\ sessions'[s].loading = sessions[s].loading
               /\ sessions'[s].error = sessions[s].error
               /\ sessions'[s].lastFrame # sessions[s].lastFrame =>
                     sessions'[s].lastFrame.disposed
          /\ \A s \in MountedSessions : ~sessions'[s].mounted =>
               /\ sessions'[s].mtl = sessions[s].mtl
               /\ sessions'[s].obj = sessions[s].obj
               /\ sessions'[s].loading = sessions[s].loading
               /\ sessions'[s].error = sessions[s].error
               /\ sessions'[s].rafScheduled]_vars

\* session 1 was torn down while its material load was in flight; a frame
\* then drew the disposed, still empty scene, and after that the loads
\* completed and put the object into it, with loading still true
C10_Witness ==
    /\ Len(sessions) = 2
    /\ ~sessions[1].mounted
    /\ sessions[1].rendererDisposed = 1
    /\ sessions[1].lastFrame.disposed
    /\ ~sessions[1].lastFrame.drewObject
    /\ ObjectInScene(sessions[1])
    /\ sessions[1].loading
    /\ sessions[1].error = NoError
    /\ sessions[2].mounted
    /\ sessions[2].loading

====
